---- MODULE Spec2Model ----
(***************************************************************************)
(* Model of the MatrixRain component (two variants):                       *)
(*   variant "A" : src/src/app/page.jsx   (two canvases, scene image,      *)
(*                                         bounding box, fontSize 4)       *)
(*   variant "B" : src/unnamed/part_000   (one canvas, glitch, fontSize 16)*)
(* The component has a setup effect (async setup() + cleanup) and a        *)
(* render-loop effect (resize listener, segmentation interval, draw        *)
(* loop + cleanup).  The browser supplies the events: promise              *)
(* resolutions and rejections, animation frames, interval ticks, resize    *)
(* events and the unmount of the component.  A state setter called from a  *)
(* promise continuation or an event listener queues its update; React      *)
(* renders the queued updates later, in one batch (Rerender), and runs the *)
(* render-loop effect in a task of its own if a dependency changed         *)
(* (FlushEffect).  The removal of the component (Unmount) and the cleanups *)
(* of its effects (FlushCleanups) are two steps in the same way.           *)
(***************************************************************************)
EXTENDS Integers, Sequences, FiniteSets, TLC

\* ------------------------------------------------------------------ bounds
MaxPolls  == 2      \* segmentPerson calls issued in one behaviour
MaxFrames == 3      \* render ticks executed in one behaviour
MaxActs   == 2      \* resize events are delivered while fewer activations ran
MaxRainFrames == 7  \* render ticks executed in one behaviour of SpecRain
MaxRainActs   == 3  \* the same bound as MaxActs, for SpecRain
MaxCellFrames == 12 \* render ticks executed in one behaviour of SpecCells

\* ------------------------------------------------------- nullable values
NULL == <<>>
Some(x) == <<x>>
Val(s) == s[1]

\* ------------------------------------------------------- input domains
Variants == {"A", "B"}
\* video.videoWidth / video.videoHeight once the metadata is loaded
VideoSizes == {<<0, 0>>, <<1, 1>>}
\* window.innerWidth / window.innerHeight: windows too small for a single
\* glyph, so that the grid of Spec is empty (SpecRain and SpecCells have the
\* grids)
Viewports == {<<2, 4>>, <<3, 4>>}
\* error.name of a rejected setup step; "undefined" is the Event object a
\* failed <script> load rejects with (it has no name property)
ScriptErrors == {"undefined"}
CameraErrors == {"NotAllowedError", "NotFoundError", "NotReadableError"}
PlayErrors   == {"NotAllowedError", "AbortError"}
ModelErrors  == {"Error"}

\* ------------------------------------------------------- messages
PermissionMessage == "Camera access is required. Please allow camera permissions and refresh."
GenericMessage    == "Failed to load models or start camera. Please try again."
SceneMessage      == "Failed to load scene images. Please check the URLs."

VARIABLES
  variant,            \* which of the two source files is running
  mounted,            \* the component is mounted (videoRef.current is the <video>)
  pc,                 \* position of the async function setup()
  imgs,               \* variant A: state of Promise.all([treePromise, grassPromise])
  net,                \* useState(null): the BodyPix model handle
  isReady,            \* useState(false)
  errorMessage,       \* useState('')
  sceneImageData,     \* variant A: useState(null)
  dimensions,         \* useState({width: 0, height: 0}) as <<width, height>>
  pendingDimensions,  \* a setDimensions() update React has not rendered yet
  queued,             \* the other state updates React has not rendered yet
  passiveEffects,     \* what React has committed and not yet flushed: "effect"
                      \* (the render-loop effect is to be re-run), "cleanups"
                      \* (the component was removed), else "flushed"
  viewport,           \* <<window.innerWidth, window.innerHeight>>
  canvas,             \* <<canvas.width, canvas.height>> of the matrix canvas
  srcObject,          \* videoRef.current.srcObject is the camera stream
  track,              \* the camera track: "none", "live" or "stopped"
  video,              \* <<video.videoWidth, video.videoHeight>>
  loopActive,         \* the last run of the render-loop effect returned its cleanup
  closure,            \* dimensions and sceneImageData of the render whose effect ran last
  activation,         \* number of runs of the render-loop effect past its guard
  resizeListener,     \* window has a 'resize' listener of the component
  segmentationInterval, \* the setInterval(updateSegmentation, 100) is armed
  animationFrame,     \* the request in animationFrameId.current is pending
  frameCounter,       \* frameCounter.current
  segmentationData,   \* liveSegmentationData / segmentationData of the current closure
  drops,              \* drops of the current closure: one position per column
  glitchStartFrame,   \* variant B: glitchStartFrame of the current closure
  painted,            \* what the last draw() that painted put on the matrix canvas
  resizeListeners,    \* number of 'resize' listeners registered on window
  armedIntervals,     \* number of setInterval timers not yet cleared
  pendingFrames,      \* number of requestAnimationFrame requests not yet run or cancelled
  boundingBoxRef,     \* variant A: boundingBoxRef.current
  pollCount,          \* number of segmentPerson calls issued so far
  inflight,           \* segmentPerson calls not yet settled: [id, act]
  completed,          \* history: the settled segmentPerson calls, in order
  caught              \* history: error.name of the error setup() caught, "" if none

setupVars == <<pc, imgs, net, isReady, errorMessage, sceneImageData, queued,
               caught>>
cameraVars == <<srcObject, track, video>>
runVars == <<loopActive, closure, activation, resizeListener,
             segmentationInterval, animationFrame, frameCounter, segmentationData,
             drops, glitchStartFrame, painted, resizeListeners, armedIntervals,
             pendingFrames>>
loopVars == <<runVars, passiveEffects>>
pollVars == <<boundingBoxRef, pollCount, inflight, completed>>
vars == <<variant, mounted, pc, imgs, net, isReady, errorMessage, sceneImageData,
          dimensions, pendingDimensions, queued, passiveEffects, viewport, canvas,
          srcObject, track, video, loopActive, closure, activation, resizeListener, segmentationInterval,
          animationFrame, frameCounter, segmentationData, drops,
          glitchStartFrame, painted, resizeListeners, armedIntervals,
          pendingFrames, boundingBoxRef,
          pollCount, inflight, completed, caught>>

\* ------------------------------------------------------- program constants
\* const fontSize = 4 (variant A) / 16 (variant B)
fontSizeA == 4
fontSizeB == 16
fontSize == IF variant = "A" THEN fontSizeA ELSE fontSizeB

\* ------------------------------------------------------------------------
\* Natural numbers of any size, for the mantissas of JavaScript numbers:
\* sequences of digits in base 2^15, least significant digit first, without
\* leading zero digits (0 is the empty sequence).
Base == 32768
DigitBits == 15

RECURSIVE BigOfInt(_)
BigOfInt(n) == IF n = 0 THEN <<>> ELSE <<n % Base>> \o BigOfInt(n \div Base)

RECURSIVE BigToInt(_)
BigToInt(a) == IF a = <<>> THEN 0 ELSE a[1] + Base * BigToInt(Tail(a))

RECURSIVE BigTrim(_)
BigTrim(a) ==
  IF a = <<>> THEN a
  ELSE IF a[Len(a)] = 0 THEN BigTrim(SubSeq(a, 1, Len(a) - 1)) ELSE a

Digit(a, i) == IF i <= Len(a) THEN a[i] ELSE 0

RECURSIVE BigCmpAt(_, _, _)
BigCmpAt(a, b, i) ==
  IF i = 0 THEN 0
  ELSE IF a[i] < b[i] THEN 0 - 1
  ELSE IF a[i] > b[i] THEN 1
  ELSE BigCmpAt(a, b, i - 1)

\* -1, 0 or 1 as a < b, a = b or a > b
BigCmp(a, b) ==
  IF Len(a) < Len(b) THEN 0 - 1
  ELSE IF Len(a) > Len(b) THEN 1
  ELSE BigCmpAt(a, b, Len(a))

RECURSIVE BigAddAt(_, _, _, _)
BigAddAt(a, b, i, carry) ==
  IF i > Len(a) /\ i > Len(b)
  THEN IF carry = 0 THEN <<>> ELSE <<carry>>
  ELSE LET s == Digit(a, i) + Digit(b, i) + carry
       IN  <<s % Base>> \o BigAddAt(a, b, i + 1, s \div Base)

BigAdd(a, b) ==
  IF b = <<>> THEN a ELSE IF a = <<>> THEN b ELSE BigAddAt(a, b, 1, 0)

RECURSIVE BigSubAt(_, _, _, _)
BigSubAt(a, b, i, borrow) ==
  IF i > Len(a) THEN <<>>
  ELSE LET s == a[i] - Digit(b, i) - borrow
       IN  <<IF s < 0 THEN s + Base ELSE s>>
             \o BigSubAt(a, b, i + 1, IF s < 0 THEN 1 ELSE 0)

\* a - b for a >= b
BigSub(a, b) == IF b = <<>> THEN a ELSE BigTrim(BigSubAt(a, b, 1, 0))

RECURSIVE BigMulSmallAt(_, _, _, _)
BigMulSmallAt(a, k, i, carry) ==
  IF i > Len(a)
  THEN IF carry = 0 THEN <<>> ELSE <<carry>>
  ELSE LET p == a[i] * k + carry
       IN  <<p % Base>> \o BigMulSmallAt(a, k, i + 1, p \div Base)

\* a * k for 0 <= k < Base
BigMulSmall(a, k) ==
  IF k = 0 THEN <<>> ELSE IF k = 1 THEN a ELSE BigMulSmallAt(a, k, 1, 0)

RECURSIVE BigMulFrom(_, _, _)
BigMulFrom(a, b, j) ==
  IF j > Len(b) THEN <<>>
  ELSE LET rest == BigMulFrom(a, b, j + 1)
       IN  BigAdd(BigMulSmall(a, b[j]), IF rest = <<>> THEN <<>> ELSE <<0>> \o rest)

BigMul(a, b) ==
  IF a = <<>> \/ b = <<>> THEN <<>>
  ELSE IF Len(a) = 1 /\ Len(b) = 1 THEN BigOfInt(a[1] * b[1])
  ELSE BigMulFrom(a, b, 1)

\* quotient and remainder of a by k, 0 < k < Base, from digit i down
RECURSIVE BigDivSmallAt(_, _, _, _)
BigDivSmallAt(a, k, i, rem) ==
  IF i = 0 THEN [q |-> <<>>, r |-> rem]
  ELSE LET cur  == rem * Base + a[i]
           rest == BigDivSmallAt(a, k, i - 1, cur % k)
       IN  [q |-> rest.q \o <<cur \div k>>, r |-> rest.r]

\* res without the leading zero digits of its quotient
TrimmedQuotient(res) == [q |-> BigTrim(res.q), r |-> res.r]

BigDivSmall(a, k) == TrimmedQuotient(BigDivSmallAt(a, k, Len(a), 0))

RECURSIVE IntBitLen(_)
IntBitLen(n) == IF n = 0 THEN 0 ELSE 1 + IntBitLen(n \div 2)

\* number of binary digits of a
BigBitLen(a) ==
  IF a = <<>> THEN 0 ELSE DigitBits * (Len(a) - 1) + IntBitLen(a[Len(a)])

\* binary digit i of a (digit 0 is the least significant)
BigBit(a, i) == (Digit(a, i \div DigitBits + 1) \div 2 ^ (i % DigitBits)) % 2

\* a * 2^n
BigShl(a, n) ==
  IF a = <<>> \/ n = 0 THEN a
  ELSE [i \in 1..(n \div DigitBits) |-> 0] \o BigMulSmall(a, 2 ^ (n % DigitBits))

\* floor(a / 2^n)
BigShr(a, n) ==
  IF n = 0 THEN a
  ELSE IF n \div DigitBits >= Len(a) THEN <<>>
  ELSE BigDivSmall(SubSeq(a, n \div DigitBits + 1, Len(a)), 2 ^ (n % DigitBits)).q

\* the n low binary digits of a are all zero
BigLowZero(a, n) ==
  /\ \A i \in 1..(n \div DigitBits) : Digit(a, i) = 0
  /\ Digit(a, n \div DigitBits + 1) % 2 ^ (n % DigitBits) = 0

\* the largest digit d in lo..hi with b * d <= r
RECURSIVE QuotientDigit(_, _, _, _)
QuotientDigit(r, b, lo, hi) ==
  IF lo = hi THEN lo
  ELSE LET mid == (lo + hi + 1) \div 2
       IN  IF BigCmp(BigMulSmall(b, mid), r) <= 0
           THEN QuotientDigit(r, b, mid, hi)
           ELSE QuotientDigit(r, b, lo, mid - 1)

\* long division, from digit i of a down: q and r are the quotient and the
\* remainder of the digits above i
RECURSIVE BigDivModAt(_, _, _, _, _)
BigDivModAt(a, b, i, q, r) ==
  IF i = 0 THEN [q |-> BigTrim(q), r |-> r]
  ELSE LET r2 == BigTrim(<<a[i]>> \o r)
           d  == QuotientDigit(r2, b, 0, Base - 1)
       IN  BigDivModAt(a, b, i - 1, <<d>> \o q, BigSub(r2, BigMulSmall(b, d)))

\* quotient and remainder of a by b, b > 0
BigDivMod(a, b) ==
  IF Len(b) = 1
  THEN LET res == BigDivSmall(a, b[1]) IN [q |-> res.q, r |-> BigOfInt(res.r)]
  ELSE BigDivModAt(a, b, Len(a), <<>>, <<>>)

\* ------------------------------------------------------------------------
\* JavaScript numbers (IEEE 754 binary64).  A finite number other than 0 is
\* s * m * 2^e with sign s, an odd mantissa m of at most 53 binary digits
\* and exponent e, so that equal numbers are equal values; 0, the two
\* infinities and NaN are values of their own.  Every operation computes
\* the exact result and rounds it to the nearest number with 53 binary
\* digits, ties to even, as the hardware does.  The sign of zero, subnormal
\* numbers and overflow are left out: no quantity of the program comes near
\* 2^-1022 or 2^1024.
MantissaBits == 53
NaN == [k |-> "nan", s |-> 0, m |-> <<>>, e |-> 0]
Zero == [k |-> "num", s |-> 0, m |-> <<>>, e |-> 0]
Infinity(s) == [k |-> "inf", s |-> s, m |-> <<>>, e |-> 0]

IsNaN(a) == a.k = "nan"
IsFinite(a) == a.k = "num"

RECURSIVE IntTrailingZeros(_)
IntTrailingZeros(n) == IF n % 2 = 1 THEN 0 ELSE 1 + IntTrailingZeros(n \div 2)

\* number of zero binary digits at the low end of a, a > 0
RECURSIVE BigTrailingZeros(_)
BigTrailingZeros(a) ==
  IF a[1] = 0 THEN DigitBits + BigTrailingZeros(Tail(a))
  ELSE IntTrailingZeros(a[1])

\* the number s * (m / 2^z) * 2^(e + z), the z low binary digits of m being zero
Stripped(s, m, e, z) == [k |-> "num", s |-> s, m |-> BigShr(m, z), e |-> e + z]

\* the number s * m * 2^e, m > 0 of at most 53 binary digits
Canonical(s, m, e) == Stripped(s, m, e, BigTrailingZeros(m))

\* q, or q + 1 when the part dropped after q is above one half, or is one
\* half and q is odd
RoundedUp(q, half, below) ==
  IF half /\ (below \/ q[1] % 2 = 1) THEN BigAdd(q, <<1>>) ELSE q

\* Rounded, for m > 0 with `drop` binary digits more than a mantissa holds
RoundedAt(s, m, e, sticky, drop) ==
  Canonical(s,
            IF drop <= 0 THEN m
            ELSE RoundedUp(BigShr(m, drop), BigBit(m, drop - 1) = 1,
                           sticky \/ ~BigLowZero(m, drop - 1)),
            IF drop <= 0 THEN e ELSE e + drop)

\* The number nearest to s * x * 2^e, where x = m if ~sticky and
\* m < x < m + 1 if sticky (then m has more than 54 binary digits)
Rounded(s, m, e, sticky) ==
  IF m = <<>> THEN Zero
  ELSE RoundedAt(s, m, e, sticky, BigBitLen(m) - MantissaBits)

\* the integer n as a number (|n| < 2^31 is exact)
OfInt(n) ==
  IF n = 0 THEN Zero
  ELSE Canonical(IF n < 0 THEN 0 - 1 ELSE 1, BigOfInt(IF n < 0 THEN 0 - n ELSE n), 0)

Neg(a) == [a EXCEPT !.s = 0 - a.s]

\* a * b
NumMul(a, b) ==
  IF IsNaN(a) \/ IsNaN(b) THEN NaN
  ELSE IF a.k = "inf" \/ b.k = "inf"
  THEN IF a.s = 0 \/ b.s = 0 THEN NaN ELSE Infinity(a.s * b.s)
  ELSE IF a.s = 0 \/ b.s = 0 THEN Zero
  ELSE Rounded(a.s * b.s, BigMul(a.m, b.m), a.e + b.e, FALSE)

\* the number nearest to s * (quotient and remainder res) * 2^e
RoundedQuotient(s, res, e) == Rounded(s, res.q, e, res.r # <<>>)

\* s * (m / n) * 2^e, from a quotient of at least 55 binary digits
Quotient(s, m, n, e, shift) ==
  RoundedQuotient(s, BigDivMod(BigShl(m, shift), n), e - shift)

\* a / b
NumDiv(a, b) ==
  IF IsNaN(a) \/ IsNaN(b) THEN NaN
  ELSE IF a.k = "inf"
  THEN IF b.k = "inf" THEN NaN ELSE Infinity(IF b.s = 0 THEN a.s ELSE a.s * b.s)
  ELSE IF b.k = "inf" THEN Zero
  ELSE IF b.s = 0 THEN (IF a.s = 0 THEN NaN ELSE Infinity(a.s))
  ELSE IF a.s = 0 THEN Zero
  ELSE IF b.m = <<1>> THEN [a EXCEPT !.s = a.s * b.s, !.e = a.e - b.e]
  ELSE Quotient(a.s * b.s, a.m, b.m, a.e - b.e,
                IF BigBitLen(a.m) - BigBitLen(b.m) < MantissaBits + 2
                THEN MantissaBits + 2 + BigBitLen(b.m) - BigBitLen(a.m) ELSE 0)

\* -1, 0 or 1 as x * 2^low is below, equal to or above y * 2^low, the
\* numbers having topA and topB binary digits before the point
CmpAligned(x, y, topA, topB) ==
  IF topA < topB THEN 0 - 1
  ELSE IF topA > topB THEN 1
  ELSE BigCmp(x, y)

\* -1, 0 or 1 as |a| < |b|, |a| = |b| or |a| > |b|, for finite a, b other than 0
CmpMagnitude(a, b) ==
  CmpAligned(BigShl(a.m, IF a.e < b.e THEN 0 ELSE a.e - b.e),
             BigShl(b.m, IF a.e < b.e THEN b.e - a.e ELSE 0),
             BigBitLen(a.m) + a.e, BigBitLen(b.m) + b.e)

\* -1, 0 or 1 as a < b, a = b or a > b, for a, b other than NaN
NumCmp(a, b) ==
  IF a.s # b.s THEN (IF a.s < b.s THEN 0 - 1 ELSE 1)
  ELSE IF a.s = 0 THEN 0
  ELSE IF a.k = "inf" THEN (IF b.k = "inf" THEN 0 ELSE a.s)
  ELSE IF b.k = "inf" THEN 0 - a.s
  ELSE a.s * CmpMagnitude(a, b)

\* a > b, a >= b, a < b: false as soon as one side is NaN
NumGt(a, b) == ~IsNaN(a) /\ ~IsNaN(b) /\ NumCmp(a, b) > 0
NumGe(a, b) == ~IsNaN(a) /\ ~IsNaN(b) /\ NumCmp(a, b) >= 0
NumLt(a, b) == ~IsNaN(a) /\ ~IsNaN(b) /\ NumCmp(a, b) < 0

\* sa * x * 2^e + sb * y * 2^e for x, y > 0, c being BigCmp(x, y)
SumAligned(sa, x, sb, y, e, c) ==
  Rounded(IF sa = sb \/ c >= 0 THEN sa ELSE sb,
          IF sa = sb THEN BigAdd(x, y)
          ELSE IF c >= 0 THEN BigSub(x, y) ELSE BigSub(y, x),
          e, FALSE)

\* the sum of two finite numbers other than 0, their mantissas aligned at
\* the lower exponent
Sum(sa, x, sb, y, e) == SumAligned(sa, x, sb, y, e, BigCmp(x, y))

\* a + b
NumAdd(a, b) ==
  IF IsNaN(a) \/ IsNaN(b) THEN NaN
  ELSE IF a.k = "inf"
  THEN IF b.k = "inf" /\ b.s # a.s THEN NaN ELSE a
  ELSE IF b.k = "inf" THEN b
  ELSE IF a.s = 0 THEN b
  ELSE IF b.s = 0 THEN a
  ELSE Sum(a.s, BigShl(a.m, IF a.e < b.e THEN 0 ELSE a.e - b.e),
           b.s, BigShl(b.m, IF a.e < b.e THEN b.e - a.e ELSE 0),
           IF a.e < b.e THEN a.e ELSE b.e)

\* a - b
NumSub(a, b) == NumAdd(a, Neg(b))

\* n / d for integers n and d, as the code computes it from two integers
Num(n, d) == NumDiv(OfInt(n), OfInt(d))

\* a is a whole number
IsInteger(a) == IsFinite(a) /\ a.e >= 0

\* the whole part q of |a|, below a negative a that is not whole
FloorOf(s, q) == IF s > 0 THEN q ELSE 0 - q - 1

\* Math.floor of a finite number, as an integer
Floor(a) ==
  IF a.s = 0 THEN 0
  ELSE IF a.e >= 0 THEN a.s * BigToInt(BigShl(a.m, a.e))
  ELSE FloorOf(a.s, BigToInt(BigShr(a.m, 0 - a.e)))

\* draw(), aspect-ratio calculations of variant A: <<drawWidth, drawHeight>>
\* for a container <<containerWidth, containerHeight>> and a videoAspectRatio
FitVideo(container, videoAspectRatio) ==
  IF NumGt(videoAspectRatio, NumDiv(container[1], container[2]))
  THEN <<container[1], NumDiv(container[1], videoAspectRatio)>>
  ELSE <<NumMul(container[2], videoAspectRatio), container[2]>>

\* const containerWidth = canvas.width, containerHeight = canvas.height / 2
Container(dims) == <<OfInt(dims[1]), Num(dims[2], 2)>>

\* videoAspectRatio = video.videoWidth / video.videoHeight
DrawSize(dims, vid) == FitVideo(Container(dims), Num(vid[1], vid[2]))

\* draw() of variant A allocates Array(columns) when drops.length !== columns;
\* with columns = Math.floor(drawWidth / fontSize) not finite (NaN or
\* Infinity) the comparison is true and Array(columns) throws a RangeError
\* before requestAnimationFrame is reached.  Variant B computes columns in
\* the effect body from dimensions alone and its draw() has no statement
\* that throws.
DrawThrows(v, dims, vid) ==
  v = "A" /\ ~IsFinite(NumDiv(DrawSize(dims, vid)[1], OfInt(fontSizeA)))

\* ------------------------------------------------------------------------
\* 0.5
Half == [k |-> "num", s |-> 1, m |-> <<1>>, e |-> -1]

\* the values Math.random() returns: 0 <= r < 1
Randoms == {Zero, Half}

\* (j < highlightStartRow + 10): rows of the highlight band
highlightRows == 10
\* if (alpha > 128)
alphaCutoff == 128
\* const glitchDuration = 2
glitchDuration == 2

\* baseColor
Green == "0, 255, 17"
White == "255, 255, 255"

\* the composite getImageData returns for the scene, its alpha channel only
\* (data[pixelIndex + 3]), row by row
SceneImages == {[width |-> 1, height |-> 1, alpha |-> <<255>>]}

\* the size the grid is fitted to: drawWidth x drawHeight (variant A),
\* dimensions.width x dimensions.height (variant B)
GridSize(v, dims, vid) ==
  IF v = "A" THEN DrawSize(dims, vid) ELSE <<OfInt(dims[1]), OfInt(dims[2])>>

\* const fontSize of the variant
FontSize(v) == IF v = "A" THEN fontSizeA ELSE fontSizeB

\* a count that rounds up: Math.ceil(q), q being a quotient side / fontSize
CellsRoundedUp(q) ==
  IF ~IsFinite(q) THEN q
  ELSE IF IsInteger(q) THEN Floor(q) ELSE Floor(q) + 1

\* Math.floor(q), q being a quotient side / fontSize: an integer, or q itself
\* when q is NaN or an infinity
Cells(q) == IF IsFinite(q) THEN Floor(q) ELSE q

\* const columns = Math.floor(... / fontSize), const rows likewise
Columns(v, dims, vid) ==
  Cells(NumDiv(GridSize(v, dims, vid)[1], OfInt(FontSize(v))))
Rows(v, dims, vid) ==
  Cells(NumDiv(GridSize(v, dims, vid)[2], OfInt(FontSize(v))))

\* the grid of a draw() whose quotients side / fontSize are across and down:
\* Array(columns) throws when across is not finite (variant A)
GridOfQuotients(v, across, down) ==
  IF v = "A" /\ ~IsFinite(across)
  THEN [throws |-> TRUE, columns |-> 0, rows |-> 0]
  ELSE [throws |-> FALSE, columns |-> Cells(across), rows |-> Cells(down)]

\* the grid of a draw() that fits it to size
GridIn(v, size) ==
  GridOfQuotients(v, NumDiv(size[1], OfInt(FontSize(v))),
                     NumDiv(size[2], OfInt(FontSize(v))))

\* What one draw() derives from its window and the camera frame before it
\* touches the drops: whether Array(columns) throws, and the grid if not
Geometry(v, dims, vid) == GridIn(v, GridSize(v, dims, vid))

\* Geometry of the windows and camera frames of Spec, as a table that is
\* evaluated once (the merge with the empty function makes it an explicit
\* function, whose entries are not evaluated again at every lookup)
SpecSizes == Variants \X ({<<0, 0>>} \cup Viewports) \X VideoSizes
SpecGeometry == [k \in SpecSizes |-> Geometry(k[1], k[2], k[3])] @@ <<>>

\* Geometry(v, dims, vid), looked up where it was evaluated before
GeometryOf(v, dims, vid) ==
  IF <<v, dims, vid>> \in SpecSizes THEN SpecGeometry[<<v, dims, vid>>]
  ELSE Geometry(v, dims, vid)

\* Array(columns).fill(1).map(() => Math.random() * rows), rnd[i] being the
\* i-th value Math.random() returned
NewDrops(columns, rows, rnd) ==
  [i \in 1..columns |-> NumMul(rnd[i], OfInt(rows))]

\* a frame test that lets the columns fall on every tick
IsFallingFrameAlways(f) == TRUE

\* const isFallingFrame = frameCounter.current % 2 === 0
IsFallingFrame(f) == f % 2 = 0

\* a wrap that re-enters below the top: drops[i] = Math.random() * rows
WrapBelowTop(r, rows) == NumMul(r, OfInt(rows))

\* drops[i] = 0 - Math.random() * rows
Wrap(r, rows) == NumSub(OfInt(0), NumMul(r, OfInt(rows)))

\* the columns whose incremented position exceeds rows
Wrapping(d, rows) ==
  {i \in 1..Len(d) : NumGt(NumAdd(d[i], OfInt(1)), OfInt(rows))}

\* drops[i]++; if (drops[i] > rows) drops[i] = 0 - Math.random() * rows; for
\* every column, rnd[i] being the value Math.random() returned for column i
Advance(d, rows, rnd) ==
  [i \in 1..Len(d) |->
     IF i \in Wrapping(d, rows) THEN Wrap(rnd[i], rows)
     ELSE NumAdd(d[i], OfInt(1))]

\* glitchStartFrame > 0 && frameCounter.current < glitchStartFrame + glitchDuration
InGlitch(start, f) == start > 0 /\ f < start + glitchDuration

\* ------------------------------------------------------------------------
\* draw(), per cell (i, j).  A read past the end of the data, or at an index
\* that is not a number, is undefined, which is neither 1 nor greater than
\* 128.

\* const offsetX = (containerWidth - drawWidth) / 2, offsetY likewise
Offset(containerSide, drawSide) ==
  NumDiv(NumSub(containerSide, drawSide), OfInt(2))

\* (x - offsetX) with x = offsetX + i * fontSize, the cell being k = i *
\* fontSize pixels from the offset
FromOffset(offset, k) == NumSub(NumAdd(offset, OfInt(k)), offset)

\* the distance the lookups scale, along axis 1 (x, cell column n) or axis
\* 2 (y, cell row n): (x - offsetX) in variant A, x = i * fontSize in
\* variant B
CellIn(v, container, size, axis, n) ==
  IF v = "A"
  THEN FromOffset(Offset(container[axis], size[axis]), n * fontSizeA)
  ELSE OfInt(n * fontSizeB)

\* (x - offsetX) of column i, (y - offsetY) of row j
CellX(v, dims, vid, i) ==
  CellIn(v, Container(dims), GridSize(v, dims, vid), 1, i)
CellY(v, dims, vid, j) ==
  CellIn(v, Container(dims), GridSize(v, dims, vid), 2, j)

\* distance * (len / side), before Math.floor: the coordinate in a source
\* image len pixels long that is drawn side pixels long
Scaled(distance, len, side) == NumMul(distance, NumDiv(OfInt(len), side))

\* data[index] === 1; a read past the end is undefined
IsLabelled(data, index) == index + 1 \in DOMAIN data /\ data[index + 1] = 1

\* a lookup that takes the row stride from the height: segY * videoHeight + segX
IsPersonHeightStride(mask, vid, x, y) ==
  /\ mask # NULL
  /\ vid[1] > 0
  /\ IsFinite(x) /\ IsFinite(y)
  /\ IsLabelled(Val(mask), Floor(y) * vid[2] + Floor(x))

\* isPerson: liveSegmentationData[segY * video.videoWidth + segX] === 1,
\* segX and segY being Math.floor of x = (x - offsetX) * (videoWidth /
\* drawWidth) and of y = (y - offsetY) * (videoHeight / drawHeight)
IsPerson(mask, vid, x, y) ==
  /\ mask # NULL
  /\ vid[1] > 0
  /\ IsFinite(x) /\ IsFinite(y)
  /\ IsLabelled(Val(mask), Floor(y) * vid[1] + Floor(x))

\* data[pixelIndex + 3] > 128; a read past the end is undefined
IsOpaque(alpha, pixel) ==
  pixel + 1 \in DOMAIN alpha /\ alpha[pixel + 1] > alphaCutoff

\* isSceneObject (variant A): sceneImageData.data[(imgY * width + imgX) * 4
\* + 3] > 128, imgX and imgY being Math.floor of x = (x - offsetX) *
\* (width / drawWidth) and of y = (y - offsetY) * (height / drawHeight)
IsSceneObject(scene, x, y) ==
  /\ scene # NULL
  /\ IsFinite(x) /\ IsFinite(y)
  /\ IsOpaque(Val(scene).alpha, Floor(y) * Val(scene).width + Floor(x))

\* isObject (variant A) / isPerson (variant B) of the cell whose distances
\* (x - offsetX) and (y - offsetY) are x and y, in a grid fitted to size
IsObject(v, mask, scene, vid, size, x, y) ==
  \/ IsPerson(mask, vid, Scaled(x, vid[1], size[1]), Scaled(y, vid[2], size[2]))
  \/ /\ v = "A"
     /\ IsSceneObject(scene, Scaled(x, Val(scene).width, size[1]),
                             Scaled(y, Val(scene).height, size[2]))

\* a band that is one row taller: j <= highlightStartRow + 10
IsHighlightedInclusive(j, highlightStartRow) ==
  /\ NumGe(OfInt(j), highlightStartRow)
  /\ NumGe(NumAdd(highlightStartRow, OfInt(highlightRows)), OfInt(j))

\* isHighlighted = (j >= highlightStartRow) && (j < highlightStartRow + 10)
IsHighlighted(j, highlightStartRow) ==
  /\ NumGe(OfInt(j), highlightStartRow)
  /\ NumLt(OfInt(j), NumAdd(highlightStartRow, OfInt(highlightRows)))

\* the opacity literals 0.2, 0.4, 0.5 and 1 (1.0): 0.2 is the number
\* 3602879701896397 * 2^-54 and 0.4 its double, the mantissa written in
\* digits of base 2^15
Opacity02 == [k |-> "num", s |-> 1, m |-> <<19661, 6553, 13107, 102>>, e |-> -54]
Opacity04 == [k |-> "num", s |-> 1, m |-> <<19661, 6553, 13107, 102>>, e |-> -53]
Opacity05 == Half
Opacity1  == OfInt(1)

\* fillStyle = `rgba(${baseColor}, ${opacity})` of one cell
CellStyle(v, isObject, isHighlighted) ==
  IF v = "A"
  THEN [color   |-> IF isObject THEN Green ELSE White,
        opacity |-> IF isHighlighted THEN Opacity05
                    ELSE IF isObject THEN Opacity1 ELSE Opacity02]
  ELSE [color   |-> IF isObject THEN White ELSE Green,
        opacity |-> IF isHighlighted THEN Opacity1
                    ELSE IF isObject THEN Opacity04 ELSE Opacity02]

\* what a draw() puts on the matrix canvas: the raw camera feed or the grid
\* of glyphs (the glyph itself is not kept); Blank before the first draw()
Blank == [kind |-> "blank"]
RawFeed == [kind |-> "video"]
\* the cells of a draw() that has derived container, size and grid
PaintCells(v, vid, mask, scene, d, container, size, grid) ==
  [kind  |-> "grid",
   cells |-> [c \in (0..(grid.columns - 1)) \X (0..(grid.rows - 1)) |->
                CellStyle(v, IsObject(v, mask, scene, vid, size,
                                      CellIn(v, container, size, 1, c[1]),
                                      CellIn(v, container, size, 2, c[2])),
                          IsHighlighted(c[2], d[c[1] + 1]))]]
PaintGrid(v, dims, vid, mask, scene, d) ==
  PaintCells(v, vid, mask, scene, d, Container(dims), GridSize(v, dims, vid),
             GeometryOf(v, dims, vid))

\* ------------------------------------------------------------------------
\* if (glitchStartFrame === 0 && Math.random() < 1/1800): the bound 1/1800
\* is the number 5124095576030431 * 2^-63
GlitchChance ==
  [k |-> "num", s |-> 1, m |-> <<15583, 28981, 20825, 145>>, e |-> -63]

\* draw() run in a closure with dimensions = dims, drops = d,
\* glitchStartFrame = g, the mask and the scene image given, grid being the
\* grid it derives; all of it but the last statement
\* (requestAnimationFrame), which the callers model
RunDraw(dims, d, g, mask, scene, grid) ==
  LET f       == frameCounter + 1
      columns == grid.columns
      rows    == grid.rows
      renew   == variant = "A" /\ Len(d) # columns
  IN  /\ frameCounter' = f
      /\ IF grid.throws
         THEN /\ drops' = d
              /\ glitchStartFrame' = g
              /\ painted' = painted
         ELSE \E r \in Randoms :
                LET start == IF variant = "B" /\ g = 0 /\ NumLt(r, GlitchChance)
                             THEN f ELSE g
                IN  IF variant = "B" /\ InGlitch(start, f)
                    THEN /\ drops' = d
                         /\ glitchStartFrame' = start
                         /\ painted' = RawFeed
                    ELSE /\ glitchStartFrame' = 0
                         /\ \E fresh \in [(IF renew THEN 1..columns ELSE {}) -> Randoms] :
                              LET d0 == IF renew THEN NewDrops(columns, rows, fresh) ELSE d
                              IN  /\ painted' =
                                       PaintCells(variant, video, mask, scene, d0,
                                                  Container(dims),
                                                  GridSize(variant, dims, video),
                                                  grid)
                                  /\ IF IsFallingFrame(f)
                                     THEN \E rnd \in [Wrapping(d0, rows) -> Randoms] :
                                            drops' = Advance(d0, rows, rnd)
                                     ELSE drops' = d0

\* ------------------------------------------------------------------------
\* net.segmentPerson(video, ...) resolves with {width, height, data}: one
\* label (0 or 1) per source pixel, row by row
Segmentations(vid) ==
  {[width |-> vid[1], height |-> vid[2], data |-> d] :
      d \in [1..(vid[1] * vid[2]) -> {0, 1}]}
\* how a segmentPerson call settles: a segmentation, a falsy value, a rejection
Outcomes(vid) ==
  {[kind |-> "ok", seg |-> s] : s \in Segmentations(vid)}
    \cup {[kind |-> "empty"], [kind |-> "rejected"]}

\* updateSegmentation of variant A, the bounding box scan: the two nested
\* loops visit index = y * width + x in increasing order
RECURSIVE ScanFrom(_, _, _)
ScanFrom(seg, index, acc) ==
  IF index >= seg.width * seg.height THEN acc
  ELSE LET x == index % seg.width
           y == index \div seg.width
       IN  IF seg.data[index + 1] = 1
           THEN ScanFrom(seg, index + 1,
                  [personFound |-> TRUE,
                   minX |-> IF x < acc.minX THEN x ELSE acc.minX,
                   minY |-> IF y < acc.minY THEN y ELSE acc.minY,
                   maxX |-> IF x > acc.maxX THEN x ELSE acc.maxX,
                   maxY |-> IF y > acc.maxY THEN y ELSE acc.maxY])
           ELSE ScanFrom(seg, index + 1, acc)

\* the value stored in boundingBoxRef.current after the scan
BoundingBox(seg) ==
  LET r == ScanFrom(seg, 0,
             [personFound |-> FALSE, minX |-> seg.width, minY |-> seg.height,
              maxX |-> 0, maxY |-> 0])
  IN  IF r.personFound
      THEN Some([minX |-> r.minX, minY |-> r.minY, maxX |-> r.maxX,
                 maxY |-> r.maxY, width |-> seg.width, height |-> seg.height])
      ELSE NULL

\* catch (error) of setup(): the message chosen from error.name
SetupErrorMessage(name) ==
  IF name = "NotAllowedError" \/ name = "NotFoundError"
  THEN PermissionMessage
  ELSE GenericMessage

\* ------------------------------------------------------------------------
\* setAllCanvasDimensions / setCanvasDimensions: the canvas size set from the
\* viewport; canvas.height is an integer attribute, so newHeight / 2 is
\* truncated
CanvasSize(v, vp) ==
  IF v = "A" THEN <<vp[1], vp[2] \div 2>> ELSE <<vp[1], vp[2]>>

\* an effect body without its early return
EffectGuardNone(ready, model) == TRUE

\* the guard of the render-loop effect: if (!isReady || !net) return;
EffectGuard(ready, model) == ready /\ model # NULL

\* a store that keeps the first mask: if (newSegmentation && !data) ...
StoreSegmentationKeepFirst(cur, poll, o) ==
  IF o.kind = "ok" /\ poll.act = activation /\ cur = NULL
  THEN Some(o.seg.data) ELSE cur

\* a store without the if (newSegmentation) test and with the assignment in
\* a finally block: a failed or empty inference clears the mask
StoreSegmentationClearOnFailure(cur, poll, o) ==
  IF poll.act # activation THEN cur
  ELSE IF o.kind = "ok" THEN Some(o.seg.data) ELSE NULL

\* if (newSegmentation) liveSegmentationData = newSegmentation.data; the
\* variable belongs to the closure of the activation that issued the call
StoreSegmentation(cur, poll, o) ==
  IF o.kind = "ok" /\ poll.act = activation THEN Some(o.seg.data) ELSE cur

\* a store without the else branch: a poll without a person keeps the old box
StoreBoundingBoxKeepStale(cur, o) ==
  IF o.kind = "ok" /\ variant = "A" /\ BoundingBox(o.seg) # NULL
  THEN BoundingBox(o.seg) ELSE cur

\* variant A, inside if (newSegmentation): boundingBoxRef.current is set to
\* the scanned box or to null; the ref is shared by all activations
StoreBoundingBox(cur, o) ==
  IF o.kind = "ok" /\ variant = "A" THEN BoundingBox(o.seg) ELSE cur

\* ------------------------------------------------------------------------
\* a cleanup that releases nothing: return () => {};
AfterCleanupKeepsAll(n, registered) == n

\* What is left of n handles of one kind (listeners, intervals, frame
\* requests) when the cleanup of the previous run of the effect is called:
\* removeEventListener, clearInterval and cancelAnimationFrame each release
\* the one handle of that run, if the run registered one (it returned its
\* cleanup, and for the frame the request in animationFrameId.current is
\* still pending)
AfterCleanup(n, registered) == IF registered THEN n - 1 ELSE n

\* ------------------------------------------------------------------------
\* The end of the effect body, in a closure with dimensions = dims whose
\* draw() derives grid: variant B fills its drops (Array(columns).fill(1)
\* .map(() => Math.random() * rows)), both call draw(); a draw() that throws
\* ends the effect before it returns its cleanup, and React unmounts the
\* tree
FirstDraw(dims, scene, grid) ==
  /\ \E fresh \in [(IF variant = "B" THEN 1..grid.columns ELSE {}) -> Randoms] :
       RunDraw(dims,
              IF variant = "B" THEN NewDrops(grid.columns, grid.rows, fresh)
              ELSE <<>>,
              0, NULL, scene, grid)
  /\ IF grid.throws
     THEN /\ animationFrame' = FALSE
          /\ pendingFrames' = AfterCleanup(pendingFrames, animationFrame)
          /\ loopActive' = FALSE
          /\ mounted' = FALSE
          /\ pendingDimensions' = NULL
          /\ \E refAttached \in BOOLEAN :
               track' = IF refAttached /\ srcObject /\ track = "live"
                        THEN "stopped" ELSE track
     ELSE /\ animationFrame' = TRUE
          /\ pendingFrames' =
               AfterCleanup(pendingFrames, loopActive /\ animationFrame) + 1
          /\ loopActive' = TRUE
          /\ pendingDimensions' = Some(viewport)
          /\ UNCHANGED <<mounted, track>>

\* ------------------------------------------------------------------------
\* One run of the render-loop effect after a render with isReady = ready,
\* net = model, dimensions = dims, sceneImageData = scene, one of which changed: the cleanup of the
\* previous run (when it returned one), then the effect body.  A draw() that
\* throws inside the effect body is an error in a passive effect: React
\* unmounts the tree, the cleanup of the setup effect runs, and the effect
\* body never returned a cleanup for its listener and its interval.
RenderLoopEffect(ready, model, dims, scene) ==
  IF ~EffectGuard(ready, model)
  THEN /\ loopActive' = FALSE
       /\ resizeListener' = (resizeListener /\ ~loopActive)
       /\ segmentationInterval' = (segmentationInterval /\ ~loopActive)
       /\ animationFrame' = (animationFrame /\ ~loopActive)
       /\ resizeListeners' = AfterCleanup(resizeListeners, loopActive)
       /\ armedIntervals' = AfterCleanup(armedIntervals, loopActive)
       /\ pendingFrames' = AfterCleanup(pendingFrames, loopActive /\ animationFrame)
       /\ UNCHANGED <<activation, closure, frameCounter, segmentationData,
                      drops, glitchStartFrame, painted,
                      pendingDimensions, canvas, mounted, track>>
  ELSE /\ canvas' = CanvasSize(variant, viewport)
       /\ closure' = [dimensions |-> dims, sceneImageData |-> scene]
       /\ resizeListener' = TRUE
       /\ resizeListeners' = AfterCleanup(resizeListeners, loopActive) + 1
       /\ segmentationData' = NULL
       /\ segmentationInterval' = TRUE
       /\ armedIntervals' = AfterCleanup(armedIntervals, loopActive) + 1
       /\ activation' = activation + 1
       /\ FirstDraw(dims, scene, GeometryOf(variant, dims, video))

\* ------------------------------------------------------------------------
\* The state updates of the component that wait for the next render, one
\* field per useState setter called from a promise continuation: NULL, or
\* Some(value) of the last call
NoUpdates ==
  [net |-> NULL, isReady |-> NULL, sceneImageData |-> NULL, errorMessage |-> NULL]

Init ==
  /\ variant \in Variants
  /\ mounted = TRUE
  /\ pc = "script1"
  /\ imgs = "idle"
  /\ net = NULL
  /\ isReady = FALSE
  /\ errorMessage = ""
  /\ sceneImageData = NULL
  /\ dimensions = <<0, 0>>
  /\ pendingDimensions = NULL
  /\ queued = NoUpdates
  /\ passiveEffects = "flushed"
  /\ viewport \in Viewports
  /\ canvas = <<300, 150>>
  /\ srcObject = FALSE
  /\ track = "none"
  /\ video = <<0, 0>>
  /\ loopActive = FALSE
  /\ closure = [dimensions |-> dimensions, sceneImageData |-> sceneImageData]
  /\ activation = 0
  /\ resizeListener = FALSE
  /\ segmentationInterval = FALSE
  /\ animationFrame = FALSE
  /\ frameCounter = 0
  /\ segmentationData = NULL
  /\ drops = <<>>
  /\ glitchStartFrame = 0
  /\ painted = Blank
  /\ resizeListeners = 0
  /\ armedIntervals = 0
  /\ pendingFrames = 0
  /\ boundingBoxRef = NULL
  /\ pollCount = 0
  /\ inflight = {}
  /\ completed = <<>>
  /\ caught = ""

\* ------------------------------------------------------------ setup()
\* catch (error): setErrorMessage(...) is queued for the next render; a
\* state setter of an unmounted component changes nothing
SetupCatch(name) ==
  /\ pc' = "failed"
  /\ caught' = name
  /\ queued' = IF mounted
               THEN [queued EXCEPT !.errorMessage = Some(SetupErrorMessage(name))]
               ELSE queued

\* await loadScript(tfjs) resolves
LoadScript1 ==
  /\ pc = "script1"
  /\ pc' = "script2"
  /\ UNCHANGED <<caught, variant, mounted, imgs, net, isReady, errorMessage,
                 sceneImageData, queued, dimensions, pendingDimensions, viewport,
                 canvas>>
  /\ UNCHANGED <<cameraVars, loopVars, pollVars>>

\* await loadScript(body-pix) resolves; variant A then sets the src of the
\* two images (their loading starts) and setup goes on to getUserMedia
LoadScript2 ==
  /\ pc = "script2"
  /\ pc' = "camera"
  /\ imgs' = IF variant = "A" THEN "loading" ELSE imgs
  /\ UNCHANGED <<caught, variant, mounted, net, isReady, errorMessage,
                 sceneImageData, queued, dimensions, pendingDimensions, viewport,
                 canvas>>
  /\ UNCHANGED <<cameraVars, loopVars, pollVars>>

\* script.onerror: the awaited promise rejects with the error event
LoadScriptFails ==
  /\ pc \in {"script1", "script2"}
  /\ \E name \in ScriptErrors : SetupCatch(name)
  /\ UNCHANGED <<variant, mounted, imgs, net, isReady, errorMessage,
                 sceneImageData, dimensions, pendingDimensions, viewport, canvas>>
  /\ UNCHANGED <<cameraVars, loopVars, pollVars>>

\* getUserMedia resolves with the stream; it is attached only if
\* videoRef.current is still there
CameraGranted ==
  /\ pc = "camera"
  /\ track' = "live"
  /\ IF mounted
     THEN srcObject' = TRUE /\ pc' = "metadata"
     ELSE srcObject' = srcObject /\ pc' = "model"
  /\ UNCHANGED <<caught, variant, mounted, imgs, net, isReady, errorMessage,
                 sceneImageData, queued, dimensions, pendingDimensions, viewport,
                 canvas, video>>
  /\ UNCHANGED <<loopVars, pollVars>>

\* getUserMedia rejects
CameraFails ==
  /\ pc = "camera"
  /\ \E name \in CameraErrors : SetupCatch(name)
  /\ UNCHANGED <<variant, mounted, imgs, net, isReady, errorMessage,
                 sceneImageData, dimensions, pendingDimensions, viewport, canvas>>
  /\ UNCHANGED <<cameraVars, loopVars, pollVars>>

\* onloadedmetadata fires; then videoRef.current.play() is called, which is a
\* TypeError when the component was unmounted meanwhile
MetadataLoaded ==
  /\ pc = "metadata"
  /\ \E v \in VideoSizes : video' = v
  /\ IF mounted
     THEN pc' = "play" /\ UNCHANGED <<queued, caught>>
     ELSE SetupCatch("TypeError")
  /\ UNCHANGED <<variant, mounted, imgs, net, isReady, errorMessage,
                 sceneImageData, dimensions, pendingDimensions, viewport, canvas,
                 srcObject, track>>
  /\ UNCHANGED <<loopVars, pollVars>>

\* await videoRef.current.play() resolves; bodyPix.load is called
PlayResolved ==
  /\ pc = "play"
  /\ pc' = "model"
  /\ UNCHANGED <<caught, variant, mounted, imgs, net, isReady, errorMessage,
                 sceneImageData, queued, dimensions, pendingDimensions, viewport,
                 canvas>>
  /\ UNCHANGED <<cameraVars, loopVars, pollVars>>

\* play() rejects
PlayFails ==
  /\ pc = "play"
  /\ \E name \in PlayErrors : SetupCatch(name)
  /\ UNCHANGED <<variant, mounted, imgs, net, isReady, errorMessage,
                 sceneImageData, dimensions, pendingDimensions, viewport, canvas>>
  /\ UNCHANGED <<cameraVars, loopVars, pollVars>>

\* bodyPix.load rejects
ModelFails ==
  /\ pc = "model"
  /\ \E name \in ModelErrors : SetupCatch(name)
  /\ UNCHANGED <<variant, mounted, imgs, net, isReady, errorMessage,
                 sceneImageData, dimensions, pendingDimensions, viewport, canvas>>
  /\ UNCHANGED <<cameraVars, loopVars, pollVars>>

\* bodyPix.load resolves: setNet(loadedNet); setIsReady(true); both updates
\* are queued, React renders them later in one batch
ModelLoaded ==
  /\ pc = "model"
  /\ pc' = "done"
  /\ queued' = IF mounted
               THEN [queued EXCEPT !.net = Some(Some("BodyPix")),
                                    !.isReady = Some(TRUE)]
               ELSE queued
  /\ UNCHANGED <<caught, variant, mounted, imgs, net, isReady, errorMessage,
                 sceneImageData, dimensions, pendingDimensions, viewport, canvas>>
  /\ UNCHANGED <<cameraVars, loopVars, pollVars>>

\* ------------------------------------------------- scene images (variant A)
\* a dependency list that names the state object, [isReady, net, dimensions]:
\* every setDimensions({...}) stores a new object, which Object.is tells
\* from the previous one
DimensionsChangedByIdentity(prev, next) == TRUE

\* the dependencies dimensions.width and dimensions.height are numbers,
\* compared by value with those of the previous render
DimensionsChanged(prev, next) == next[1] # prev[1] \/ next[2] # prev[2]

\* the dimensions of the next render: a setDimensions() that is still queued
\* is rendered in the same batch as the update that triggers the render
BatchedDimensions ==
  IF pendingDimensions # NULL THEN Val(pendingDimensions) ELSE dimensions

\* Promise.all([treePromise, grassPromise]).then(...): the composite is
\* handed to setSceneImageData, which queues it for the next render
ImagesLoaded ==
  /\ imgs = "loading"
  /\ imgs' = "loaded"
  /\ \E img \in SceneImages :
       queued' = IF mounted
                 THEN [queued EXCEPT !.sceneImageData = Some(Some(img))]
                 ELSE queued
  /\ UNCHANGED <<caught, variant, mounted, pc, net, isReady, errorMessage,
                 sceneImageData, dimensions, pendingDimensions, viewport, canvas>>
  /\ UNCHANGED <<cameraVars, loopVars, pollVars>>

\* .catch(() => setErrorMessage("Failed to load scene images. ...")): the
\* message is queued for the next render
ImagesFail ==
  /\ imgs = "loading"
  /\ imgs' = "failed"
  /\ queued' = IF mounted
               THEN [queued EXCEPT !.errorMessage = Some(SceneMessage)]
               ELSE queued
  /\ UNCHANGED <<caught, variant, mounted, pc, net, isReady, errorMessage,
                 sceneImageData, dimensions, pendingDimensions, viewport, canvas>>
  /\ UNCHANGED <<cameraVars, loopVars, pollVars>>

\* ------------------------------------------------------------ teardown
\* The component is removed (what removes it is outside these files): React
\* flushes pending passive effects, commits the removal, which detaches the
\* refs and turns the state setters into no-ops, and schedules the cleanups
\* of both effects
Unmount ==
  /\ mounted
  /\ passiveEffects = "flushed"
  /\ mounted' = FALSE
  /\ pendingDimensions' = NULL
  /\ queued' = NoUpdates
  /\ passiveEffects' = "cleanups"
  /\ UNCHANGED <<variant, dimensions, viewport, canvas>>
  /\ UNCHANGED <<pc, imgs, net, isReady, errorMessage, sceneImageData, caught>>
  /\ UNCHANGED <<cameraVars, runVars, pollVars>>

\* The cleanups of both effects run, at once after the removal or in a later
\* task.  The setup cleanup stops the tracks only if videoRef.current is
\* still the element when it runs (React 17 and later detach the ref before
\* passive cleanups run; React 16 runs them before); both cleanups cancel
\* the pending frame.
FlushCleanups ==
  /\ passiveEffects = "cleanups"
  /\ passiveEffects' = "flushed"
  /\ \E refAttached \in BOOLEAN :
       track' = IF refAttached /\ srcObject /\ track = "live"
                THEN "stopped" ELSE track
  /\ animationFrame' = FALSE
  /\ pendingFrames' = AfterCleanup(pendingFrames, animationFrame)
  /\ resizeListener' = (resizeListener /\ ~loopActive)
  /\ resizeListeners' = AfterCleanup(resizeListeners, loopActive)
  /\ segmentationInterval' = (segmentationInterval /\ ~loopActive)
  /\ armedIntervals' = AfterCleanup(armedIntervals, loopActive)
  /\ loopActive' = FALSE
  /\ UNCHANGED <<variant, mounted, dimensions, pendingDimensions, viewport,
                 canvas, srcObject, video, closure, activation, frameCounter,
                 segmentationData, drops, glitchStartFrame, painted>>
  /\ UNCHANGED <<setupVars, pollVars>>

\* ------------------------------------------------------------ resize
\* The viewport changes to vp; a registered listener runs
\* setAllCanvasDimensions / setCanvasDimensions: setDimensions (rendered
\* later) and the canvas sizes
ResizeTo(vp) ==
  /\ viewport' = vp
  /\ IF resizeListener
     THEN /\ canvas' = CanvasSize(variant, vp)
          /\ pendingDimensions' = IF mounted THEN Some(vp) ELSE NULL
     ELSE UNCHANGED <<canvas, pendingDimensions>>
  /\ UNCHANGED <<variant, mounted, dimensions>>
  /\ UNCHANGED <<setupVars, cameraVars, loopVars, pollVars>>

Resize ==
  /\ activation < MaxActs
  /\ \E vp \in Viewports \ {viewport} : ResizeTo(vp)

\* the state value of the next render: the queued update, if there is one
Rendered(cur, update) == IF update # NULL THEN Val(update) ELSE cur

\* React renders the queued updates in one batch (pending passive effects
\* are flushed before a render starts) and schedules the render-loop effect
\* if one of its dependencies [isReady, net, dimensions.width,
\* dimensions.height, sceneImageData] changed (a stored composite is a new
\* object)
Rerender ==
  /\ mounted
  /\ passiveEffects = "flushed"
  /\ pendingDimensions # NULL \/ queued # NoUpdates
  /\ net' = Rendered(net, queued.net)
  /\ isReady' = Rendered(isReady, queued.isReady)
  /\ sceneImageData' = Rendered(sceneImageData, queued.sceneImageData)
  /\ errorMessage' = Rendered(errorMessage, queued.errorMessage)
  /\ dimensions' = BatchedDimensions
  /\ queued' = NoUpdates
  /\ pendingDimensions' = NULL
  /\ passiveEffects' =
       IF \/ Rendered(net, queued.net) # net
          \/ Rendered(isReady, queued.isReady) # isReady
          \/ queued.sceneImageData # NULL
          \/ DimensionsChanged(dimensions, BatchedDimensions)
       THEN "effect" ELSE "flushed"
  /\ UNCHANGED <<variant, mounted, viewport, canvas, pc, imgs, caught>>
  /\ UNCHANGED <<cameraVars, runVars, pollVars>>

\* The passive effects of the last render are flushed: the cleanup of the
\* previous run of the render-loop effect, then the effect body, in the
\* closure of that render.  When draw() throws in the body React removes the
\* component in the same task, and the setters become no-ops.
FlushEffect ==
  /\ passiveEffects = "effect"
  /\ passiveEffects' = "flushed"
  /\ RenderLoopEffect(isReady, net, dimensions, sceneImageData)
  /\ queued' = IF mounted' THEN queued ELSE NoUpdates
  /\ UNCHANGED <<variant, dimensions, viewport, srcObject, video>>
  /\ UNCHANGED <<pc, imgs, net, isReady, errorMessage, sceneImageData, caught>>
  /\ UNCHANGED pollVars

\* ------------------------------------------------------------ render tick
\* The browser runs the requested animation frame: draw().  The tick
\* increments the frame counter, does its drawing and requests the next
\* frame as its last statement.
NextDraw(grid) ==
  /\ RunDraw(closure.dimensions, drops, glitchStartFrame, segmentationData,
            closure.sceneImageData, grid)
  /\ animationFrame' = ~grid.throws
  /\ pendingFrames' = IF grid.throws THEN pendingFrames - 1 ELSE pendingFrames

DrawFrame ==
  /\ animationFrame
  /\ NextDraw(GeometryOf(variant, closure.dimensions, video))
  /\ UNCHANGED <<variant, mounted, dimensions, pendingDimensions, viewport, canvas,
                 loopActive, closure, activation, resizeListener,
                 segmentationInterval, segmentationData, resizeListeners,
                 armedIntervals, passiveEffects>>
  /\ UNCHANGED <<setupVars, cameraVars, pollVars>>

Draw ==
  /\ frameCounter < MaxFrames
  /\ DrawFrame

\* ------------------------------------------------------------ poller
\* a poller that skips the call while an earlier one has not settled:
\* if (busy) return;
IssuesSegmentationOneAtATime(enoughData, pending) == enoughData /\ pending = {}

\* the test of updateSegmentation, net && video && video.readyState >= 3,
\* with enoughData for readyState >= 3 (net and video are set while the
\* interval is armed); the calls still pending are not looked at
IssuesSegmentation(enoughData, pending) == enoughData

\* An interval tick runs updateSegmentation: segmentPerson is called if
\* net && video && video.readyState >= 3
PollTick ==
  /\ segmentationInterval
  /\ pollCount < MaxPolls
  /\ \E enoughData \in BOOLEAN :
       IF IssuesSegmentation(enoughData, inflight)
       THEN /\ pollCount' = pollCount + 1
            /\ inflight' = inflight \cup {[id |-> pollCount + 1, act |-> activation]}
       ELSE UNCHANGED <<pollCount, inflight>>
  /\ UNCHANGED <<variant, mounted, dimensions, pendingDimensions, viewport, canvas,
                 boundingBoxRef, completed>>
  /\ UNCHANGED <<setupVars, cameraVars, loopVars>>

\* A segmentPerson call settles and updateSegmentation resumes after its await
SegmentDone ==
  \E poll \in inflight : \E o \in Outcomes(video) :
    /\ inflight' = inflight \ {poll}
    /\ completed' = Append(completed, [id |-> poll.id, act |-> poll.act, res |-> o])
    /\ segmentationData' = StoreSegmentation(segmentationData, poll, o)
    /\ boundingBoxRef' = StoreBoundingBox(boundingBoxRef, o)
    /\ UNCHANGED <<variant, mounted, dimensions, pendingDimensions, viewport, canvas,
                   pollCount, loopActive, closure, activation, resizeListener,
                   segmentationInterval, animationFrame, frameCounter, drops,
                   glitchStartFrame, painted, resizeListeners, armedIntervals,
                   pendingFrames, passiveEffects>>
    /\ UNCHANGED <<setupVars, cameraVars>>

\* ------------------------------------------------------------------------
Next ==
  \/ LoadScript1 \/ LoadScript2 \/ LoadScriptFails
  \/ CameraGranted \/ CameraFails
  \/ MetadataLoaded \/ PlayResolved \/ PlayFails
  \/ ModelLoaded \/ ModelFails
  \/ ImagesLoaded \/ ImagesFail
  \/ Unmount \/ FlushCleanups \/ Resize \/ Rerender \/ FlushEffect
  \/ Draw \/ PollTick \/ SegmentDone

Spec == Init /\ [][Next]_vars

\* ------------------------------------------------------------------------
\* The segmentation poller of variant A on its own: the component is ready,
\* the loop runs (second activation, after the first render of the viewport
\* size), and the camera delivers larger frames than in Spec.
PollerVideoSizes == {<<2, 2>>, <<3, 2>>}

InitPoller ==
  /\ variant = "A"
  /\ mounted = TRUE
  /\ pc = "done"
  /\ imgs = "loaded"
  /\ net = Some("BodyPix")
  /\ isReady = TRUE
  /\ errorMessage = ""
  /\ sceneImageData \in {Some(img) : img \in SceneImages}
  /\ viewport = <<2, 4>>
  /\ dimensions = viewport
  /\ pendingDimensions = NULL
  /\ queued = NoUpdates
  /\ passiveEffects = "flushed"
  /\ canvas = CanvasSize(variant, viewport)
  /\ srcObject = TRUE
  /\ track = "live"
  /\ video \in PollerVideoSizes
  /\ loopActive = TRUE
  /\ closure = [dimensions |-> dimensions, sceneImageData |-> sceneImageData]
  /\ activation = 2
  /\ resizeListener = TRUE
  /\ segmentationInterval = TRUE
  /\ animationFrame = TRUE
  /\ resizeListeners = 1
  /\ armedIntervals = 1
  /\ pendingFrames = 1
  /\ frameCounter = 2
  /\ segmentationData = NULL
  /\ drops = <<>>
  /\ glitchStartFrame = 0
  /\ painted = PaintGrid(variant, dimensions, video, NULL, sceneImageData, <<>>)
  /\ boundingBoxRef = NULL
  /\ pollCount = 0
  /\ inflight = {}
  /\ completed = <<>>
  /\ caught = ""

NextPoller == PollTick \/ SegmentDone

SpecPoller == InitPoller /\ [][NextPoller]_vars

\* ------------------------------------------------------------------------
\* The render loop on its own, with windows large enough for a grid: the
\* component is ready (variant A: the scene image was stored before the
\* model was), the render-loop effect has run once, with dimensions still
\* 0 x 0, and its setDimensions waits to be rendered.  Per variant, the first
\* two windows give the same grid and the third one fewer or more columns.
RainViewports(v) ==
  IF v = "A" THEN {<<8, 16>>, <<10, 16>>, <<4, 16>>}
  ELSE {<<16, 32>>, <<20, 32>>, <<32, 32>>}

InitRain ==
  /\ variant \in Variants
  /\ mounted = TRUE
  /\ pc = "done"
  /\ imgs = IF variant = "A" THEN "loaded" ELSE "idle"
  /\ net = Some("BodyPix")
  /\ isReady = TRUE
  /\ errorMessage = ""
  /\ sceneImageData \in IF variant = "A" THEN {Some(img) : img \in SceneImages}
                        ELSE {NULL}
  /\ viewport \in RainViewports(variant)
  /\ dimensions = <<0, 0>>
  /\ pendingDimensions = Some(viewport)
  /\ queued = NoUpdates
  /\ passiveEffects = "flushed"
  /\ canvas = CanvasSize(variant, viewport)
  /\ srcObject = TRUE
  /\ track = "live"
  /\ video = <<1, 1>>
  /\ loopActive = TRUE
  /\ closure = [dimensions |-> dimensions, sceneImageData |-> sceneImageData]
  /\ activation = 1
  /\ resizeListener = TRUE
  /\ segmentationInterval = TRUE
  /\ animationFrame = TRUE
  /\ resizeListeners = 1
  /\ armedIntervals = 1
  /\ pendingFrames = 1
  /\ frameCounter = 1
  /\ segmentationData = NULL
  /\ drops = <<>>
  /\ glitchStartFrame = 0
  /\ painted = PaintGrid(variant, dimensions, video, NULL, sceneImageData, <<>>)
  /\ boundingBoxRef = NULL
  /\ pollCount = 0
  /\ inflight = {}
  /\ completed = <<>>
  /\ caught = ""

RainDraw ==
  /\ frameCounter < MaxRainFrames
  /\ DrawFrame

RainResize ==
  /\ activation < MaxRainActs
  /\ \E vp \in RainViewports(variant) \ {viewport} : ResizeTo(vp)

NextRain == RainDraw \/ RainResize \/ Rerender \/ FlushEffect

SpecRain == InitRain /\ [][NextRain]_vars

\* React renders every queued state update and flushes every scheduled
\* effect: a setDimensions that is pending is rendered, and an effect that
\* is pending is run, after finitely many steps.  This is weak fairness of
\* Rerender and of FlushEffect, written with the guards of the two actions
\* for ENABLED <<...>>_vars: a step of either is possible exactly when its
\* guard holds, and it always changes queued, pendingDimensions or
\* passiveEffects.
SpecRainFair ==
  /\ SpecRain
  /\ \/ []<>(~(/\ mounted
               /\ passiveEffects = "flushed"
               /\ pendingDimensions # NULL \/ queued # NoUpdates))
     \/ []<><<Rerender>>_vars
  /\ \/ []<>(passiveEffects # "effect")
     \/ []<><<FlushEffect>>_vars

\* ------------------------------------------------------------------------
\* The cells a render tick draws.  The loop runs in its second activation
\* (the one that started with frame 2) and has drawn frame 11; the first
\* segmentPerson call has then settled with a mask.  A case fixes the
\* variant, the window and the camera frame size; the mask, the scene image
\* and the positions of the drops range over the sets of the case (positions
\* the columns can have at frame 11, whatever Math.random() returned).
\*   "cells"  2 x 2 cells over a 2 x 2 mask and a 2 x 2 scene image
\*   "band"   2 x 8 cells over a 1 x 4 mask: rows below the highlight band
\*   "square" 10 x 10 cells over a 100 x 100 mask whose pixels (0..49, 0..49)
\*            are the foreground
\*   "rounded" sizes at which the scaled coordinate of a cell, computed in
\*            double precision, is one less than the exact quotient: column 1
\*            of 2 over a 7 x 3 frame and scene image (variant A); the grid
\*            has 1 row, so a drop is -0.5, 0, 0.5 or 1 at frame 11
OnlyPixel(n, k, on) == [i \in 1..n |-> IF i = k + 1 THEN on ELSE 0]
Masks(vid) == [1..(vid[1] * vid[2]) -> {0, 1}]
SquareMask == [k \in 1..10000 |->
                 IF (k - 1) % 100 < 50 /\ (k - 1) \div 100 < 50 THEN 1 ELSE 0]
CellScenes == {NULL, Some([width |-> 2, height |-> 2, alpha |-> <<128, 129, 0, 255>>])}
CellCases ==
  {[name |-> "cells", variant |-> "A", dimensions |-> <<8, 16>>, video |-> <<2, 2>>,
    masks |-> Masks(<<2, 2>>), scenes |-> CellScenes,
    positions |-> {OfInt(0 - 1), OfInt(1), OfInt(2)}],
   [name |-> "cells", variant |-> "B", dimensions |-> <<32, 32>>, video |-> <<2, 2>>,
    masks |-> Masks(<<2, 2>>), scenes |-> {NULL},
    positions |-> {OfInt(0 - 1), OfInt(1), OfInt(2)}],
   [name |-> "band", variant |-> "A", dimensions |-> <<8, 64>>, video |-> <<1, 4>>,
    masks |-> Masks(<<1, 4>>), scenes |-> {NULL},
    positions |-> {OfInt(0 - 4), OfInt(0), OfInt(5)}],
   [name |-> "band", variant |-> "B", dimensions |-> <<32, 128>>, video |-> <<1, 4>>,
    masks |-> Masks(<<1, 4>>), scenes |-> {NULL},
    positions |-> {OfInt(0 - 4), OfInt(0), OfInt(5)}],
   [name |-> "square", variant |-> "A", dimensions |-> <<40, 80>>, video |-> <<100, 100>>,
    masks |-> {SquareMask}, scenes |-> {NULL}, positions |-> {OfInt(5)}],
   [name |-> "square", variant |-> "B", dimensions |-> <<160, 160>>, video |-> <<100, 100>>,
    masks |-> {SquareMask}, scenes |-> {NULL}, positions |-> {OfInt(5)}],
   [name |-> "rounded", variant |-> "A", dimensions |-> <<18, 8>>, video |-> <<7, 3>>,
    masks |-> {OnlyPixel(21, 2, 1), OnlyPixel(21, 3, 1)},
    scenes |-> {NULL, Some([width |-> 7, height |-> 3, alpha |-> OnlyPixel(21, 2, 255)]),
                Some([width |-> 7, height |-> 3, alpha |-> OnlyPixel(21, 3, 255)])},
    positions |-> {Neg(Half), Zero, Half, OfInt(1)}]}

\* boundingBoxRef.current after the call that returned seg; the box of
\* SquareMask is written out
BoxOf(c, seg) ==
  IF c.variant = "B" THEN NULL
  ELSE IF c.name = "square"
       THEN Some([minX |-> 0, minY |-> 0, maxX |-> 49, maxY |-> 49,
                  width |-> 100, height |-> 100])
       ELSE BoundingBox(seg)

InitCells ==
  \E c \in CellCases : \E m \in c.masks : \E sc \in c.scenes :
  \E pos \in [1..Columns(c.variant, c.dimensions, c.video) -> c.positions] :
    LET seg == [width |-> c.video[1], height |-> c.video[2], data |-> m]
    IN  /\ variant = c.variant
        /\ mounted = TRUE
        /\ pc = "done"
        /\ imgs = IF c.variant = "B" THEN "idle"
                  ELSE IF sc = NULL THEN "loading" ELSE "loaded"
        /\ net = Some("BodyPix")
        /\ isReady = TRUE
        /\ errorMessage = ""
        /\ sceneImageData = sc
        /\ viewport = c.dimensions
        /\ dimensions = c.dimensions
        /\ pendingDimensions = NULL
        /\ queued = NoUpdates
        /\ passiveEffects = "flushed"
        /\ canvas = CanvasSize(c.variant, c.dimensions)
        /\ srcObject = TRUE
        /\ track = "live"
        /\ video = c.video
        /\ loopActive = TRUE
        /\ closure = [dimensions |-> dimensions, sceneImageData |-> sceneImageData]
        /\ activation = 2
        /\ resizeListener = TRUE
        /\ segmentationInterval = TRUE
        /\ animationFrame = TRUE
        /\ resizeListeners = 1
        /\ armedIntervals = 1
        /\ pendingFrames = 1
        /\ frameCounter = 11
        /\ segmentationData = Some(m)
        /\ drops = pos
        /\ glitchStartFrame = 0
        /\ painted = PaintGrid(c.variant, c.dimensions, c.video, NULL, sc, pos)
        /\ boundingBoxRef = BoxOf(c, seg)
        /\ pollCount = 1
        /\ inflight = {}
        /\ completed = <<[id |-> 1, act |-> 2, res |-> [kind |-> "ok", seg |-> seg]]>>
        /\ caught = ""

CellsDraw ==
  /\ frameCounter < MaxCellFrames
  /\ DrawFrame

NextCells == CellsDraw

SpecCells == InitCells /\ [][NextCells]_vars

\* ========================================================================
\* Properties
\* ========================================================================
LastOf(seq) == seq[Len(seq)]
IsOk(e) == e.res.kind = "ok"
IsOkOfCurrent(e) == e.res.kind = "ok" /\ e.act = activation
\* a segmentPerson call settled in this step
Settled == Len(completed') = Len(completed) + 1
\* a render tick was executed in this step
Ticked == frameCounter' # frameCounter

\* C1: no render tick is executed and no poll interval (or animation frame)
\* is armed in a state where isReady is false or net is null.
C1_LoopOnlyWhenReady ==
  [][(Ticked \/ animationFrame' \/ segmentationInterval')
       => (isReady' /\ net' # NULL)]_vars

C1_Witness ==
  /\ isReady /\ net # NULL
  /\ animationFrame /\ segmentationInterval
  /\ frameCounter >= 2

\* C2: once a setup failure has set an error message, no render tick is
\* ever executed.
C2_NoTickAfterError ==
  [][errorMessage # "" => ~Ticked]_vars

\* C3: isReady and a non-empty errorMessage never hold together; isReady is
\* never reset; a non-empty errorMessage is never cleared or replaced and
\* isReady never becomes true after it.
C3_OneWayMachine ==
  [][/\ ~(isReady' /\ errorMessage' # "")
     /\ (isReady => isReady')
     /\ (errorMessage # "" => errorMessage' = errorMessage)]_vars

\* the message the component shows once React has rendered what is queued
ShownMessage == Rendered(errorMessage, queued.errorMessage)

\* C4: a setup failure with error name NotAllowedError or NotFoundError
\* shows the permission message, any other setup failure (the scene images
\* of variant A included) shows the generic message, and isReady stays
\* false after a setup failure.
C4_FailureMessages ==
  [][mounted =>
       /\ (pc' = "failed" /\ pc # "failed") =>
            ShownMessage' = (IF caught' \in {"NotAllowedError", "NotFoundError"}
                             THEN PermissionMessage ELSE GenericMessage)
       /\ (imgs' = "failed" /\ imgs # "failed") => ShownMessage' = GenericMessage
       /\ (pc' = "failed" \/ imgs' = "failed") => ~isReady']_vars

\* C5: whenever isReady is true, setup has run through all its steps: the
\* scripts are loaded, the stream is attached, the model is initialised and
\* (variant A) the scene images are composited into sceneImageData.
C5_ReadyMeansAllStepsDone ==
  isReady =>
    /\ pc = "done"
    /\ srcObject
    /\ net # NULL
    /\ (variant = "A" => imgs = "loaded" /\ sceneImageData # NULL)

\* C6: after teardown (the component is removed and its cleanups have run),
\* once setup() has run to its end, no animation frame is pending, no
\* interval is armed, the resize listener is removed and no acquired camera
\* track is live (nothing can release them later).
C6_TeardownReleasesAll ==
  (~mounted /\ passiveEffects = "flushed" /\ pc \in {"done", "failed"}) =>
    /\ ~animationFrame
    /\ ~segmentationInterval
    /\ ~resizeListener
    /\ track # "live"

\* C7: every executed render tick requests the next frame, so a ready,
\* mounted component whose effects have run always has a pending frame; a
\* failed poll leaves the interval armed.
C7_LoopAlwaysRearms ==
  [][/\ Ticked => animationFrame'
     /\ (isReady' /\ mounted' /\ passiveEffects' = "flushed") => animationFrame'
     /\ (Settled /\ ~IsOk(LastOf(completed')))
          => segmentationInterval' = segmentationInterval]_vars

\* C8: the mask slot of the running activation always holds the data of the
\* most recently settled successful inference of that activation, whatever
\* the order in which overlapping inferences settle, and null if there is
\* none.
C8_MaskIsLatestSuccess ==
  LET good == SelectSeq(completed, IsOkOfCurrent)
  IN  segmentationData =
        IF Len(good) = 0 THEN NULL ELSE Some(LastOf(good).res.seg.data)

C8_Witness ==
  /\ Len(completed) = 2
  /\ IsOkOfCurrent(completed[1]) /\ IsOkOfCurrent(completed[2])
  /\ completed[1].id = 2 /\ completed[2].id = 1
  /\ completed[1].res.seg.data # completed[2].res.seg.data
  /\ segmentationData = Some(completed[2].res.seg.data)

\* C9: an inference that rejects or yields an empty result changes neither
\* the mask, the bounding box, isReady nor errorMessage, and leaves the
\* polling interval armed.
C9_FailedPollChangesNothing ==
  [][(Settled /\ ~IsOk(LastOf(completed')))
       => /\ segmentationData' = segmentationData
          /\ boundingBoxRef' = boundingBoxRef
          /\ isReady' = isReady
          /\ errorMessage' = errorMessage
          /\ segmentationInterval' = segmentationInterval]_vars

C9_Witness ==
  /\ Len(completed) = 2
  /\ IsOkOfCurrent(completed[1])
  /\ completed[2].res.kind = "rejected"
  /\ completed[2].act = activation
  /\ segmentationData = Some(completed[1].res.seg.data)
  /\ segmentationInterval

\* the foreground pixels <<x, y>> of a segmentation
Foreground(seg) ==
  {p \in (0..(seg.width - 1)) \X (0..(seg.height - 1)) :
     seg.data[p[2] * seg.width + p[1] + 1] = 1}
MinOf(S) == CHOOSE m \in S : \A n \in S : m <= n
MaxOf(S) == CHOOSE m \in S : \A n \in S : m >= n

\* C10: variant A: after a successful poll the bounding box is present iff
\* that poll's mask has a foreground pixel, and then its extents are the
\* minimum and maximum x and y over the foreground pixels; a successful poll
\* without foreground clears the box.
C10_BoundingBoxOfLatestPoll ==
  LET good == SelectSeq(completed, IsOk)
  IN  (variant = "A" /\ Len(good) > 0) =>
        LET fg == Foreground(LastOf(good).res.seg)
        IN  /\ (boundingBoxRef # NULL) <=> (fg # {})
            /\ fg # {} =>
                 /\ Val(boundingBoxRef).minX = MinOf({p[1] : p \in fg})
                 /\ Val(boundingBoxRef).maxX = MaxOf({p[1] : p \in fg})
                 /\ Val(boundingBoxRef).minY = MinOf({p[2] : p \in fg})
                 /\ Val(boundingBoxRef).maxY = MaxOf({p[2] : p \in fg})

C10_Witness ==
  /\ variant = "A"
  /\ Len(completed) = 2
  /\ IsOk(completed[1]) /\ IsOk(completed[2])
  /\ Cardinality(Foreground(completed[1].res.seg)) >= 2
  /\ Foreground(completed[2].res.seg) = {}
  /\ boundingBoxRef = NULL

\* ------------------------------------------------------------------------
\* a step that re-runs the render-loop effect (a rendered resize, or the
\* scene image stored), and a step that only runs a render tick of the
\* running activation
Reactivated == activation' = activation + 1
TickOfActivation == Ticked /\ activation' = activation

\* C11: a resize after which the column count is unchanged leaves every
\* column's drop position as it was: across the step that processes the
\* resize (the re-run of the effect for the rendered new dimensions, with
\* its render tick), each position is the one before, or the one before
\* advanced by the one row of that tick.
C11_DropsSurviveSameGridResize ==
  [][(/\ Reactivated
      /\ closure'.dimensions # closure.dimensions
      /\ Len(drops) > 0
      /\ Columns(variant, closure'.dimensions, video)
           = Columns(variant, closure.dimensions, video))
     => /\ Len(drops') = Len(drops)
        /\ \A i \in 1..Len(drops) :
             \/ drops'[i] = drops[i]
             \/ drops'[i] = NumAdd(drops[i], OfInt(1))]_vars

\* ------------------------------------------------------------------------
\* The grid of a container, stated without the code's branches: the drawable
\* rectangle is the container itself (variant B) or the largest rectangle of
\* the video's aspect ratio inside the top half of the container (variant
\* A), and the count along one side is the number of whole glyphs it holds.
NumMin(a, b) == IF NumLt(a, b) THEN a ELSE b
Drawable(v, size, vid) ==
  IF v = "B" THEN <<OfInt(size[1]), OfInt(size[2])>>
  ELSE LET w == OfInt(size[1])
           h == Num(size[2], 2)
           ratio == Num(vid[1], vid[2])
       IN  <<NumMin(w, NumMul(h, ratio)), NumMin(h, NumDiv(w, ratio))>>
WholeGlyphs(len, v, limit) ==
  CHOOSE c \in 0..limit :
    /\ NumGe(len, OfInt(c * FontSize(v)))
    /\ NumLt(len, OfInt((c + 1) * FontSize(v)))
\* <<columns, rows>> of the container size for a camera frame size
GlyphCounts(v, size, vid) ==
  LET area == Drawable(v, size, vid)
  IN  <<WholeGlyphs(area[1], v, size[1]), WholeGlyphs(area[2], v, size[2])>>
\* the same for the windows of SpecRain, as a table that is evaluated once
RainSizes ==
  {<<v, size, <<1, 1>>>> : v \in Variants,
                           size \in {<<0, 0>>} \cup UNION {RainViewports(w) : w \in Variants}}
RainGlyphCounts == [k \in RainSizes |-> GlyphCounts(k[1], k[2], k[3])] @@ <<>>
GlyphCountsOf(v, size, vid) ==
  IF <<v, size, vid>> \in RainSizes THEN RainGlyphCounts[<<v, size, vid>>]
  ELSE GlyphCounts(v, size, vid)
\* the last tick drew the grid of the container size, with one drop per column
GridOf(size) ==
  LET n == GlyphCountsOf(variant, size, video')
  IN  /\ DOMAIN painted'.cells = (0..(n[1] - 1)) \X (0..(n[2] - 1))
      /\ Len(drops') = n[1]
PaintedGrid ==
  /\ Ticked
  /\ painted'.kind = "grid"
  /\ ~DrawThrows(variant, closure'.dimensions, video')

\* C12 as stated: on every render tick that draws the grid, the grid has
\* floor(drawable width / glyph size) columns and floor(drawable height /
\* glyph size) rows for the drawable size of the current viewport, and drops
\* has one counter per column.
C12_GridFollowsViewport ==
  [][PaintedGrid => GridOf(viewport')]_vars

\* C12, amended: on every render tick that draws the grid, the grid has
\* floor(drawable width / glyph size) columns and floor(drawable height /
\* glyph size) rows for the drawable size of the dimensions state the running
\* activation was rendered with, and drops has one counter per column; that
\* state is the viewport size whenever no setDimensions waits to be rendered
\* and no re-run of the effect is pending.
C12_GridFollowsDimensions ==
  [][PaintedGrid =>
       /\ GridOf(closure'.dimensions)
       /\ (pendingDimensions' = NULL /\ passiveEffects' = "flushed")
            => closure'.dimensions = viewport']_vars

C12_Witness ==
  /\ activation = 3
  /\ frameCounter >= 5
  /\ pendingDimensions = NULL
  /\ painted.kind = "grid"
  /\ Len(drops) = 2
  /\ Cardinality(DOMAIN painted.cells) = 4

\* C13: within a loop activation the drop positions change only across a
\* render tick whose frame-counter value (after the increment) is even;
\* across a render tick whose value is odd every position is unchanged.
C13_DropsMoveOnlyOnEvenTicks ==
  [][/\ (activation' = activation /\ drops' # drops)
          => (Ticked /\ frameCounter' % 2 = 0)
     /\ (TickOfActivation /\ frameCounter' % 2 = 1)
          => drops' = drops]_vars

C13_Witness ==
  /\ activation = 2
  /\ frameCounter = 5
  /\ Len(drops) = 2
  /\ drops[1] # drops[2]

\* ------------------------------------------------------------------------
\* a render tick of the running activation that lets the columns fall, and
\* the columns whose position, incremented, exceeds the row count
FallingTick ==
  TickOfActivation /\ frameCounter' % 2 = 0 /\ painted'.kind = "grid"
rowCount == Rows(variant, closure.dimensions, video)
Overflows(i) == NumGt(NumAdd(drops[i], OfInt(1)), OfInt(rowCount))
WithinRows(d, rows) == \A i \in 1..Len(d) : NumGe(OfInt(rows), d[i])

\* C14 as stated: a position that exceeds the row count after its increment
\* is replaced by a value p with -rows <= p < 0, and no column holds a
\* position greater than rows at the end of a tick.
C14_WrapStrictlyAboveTop ==
  [][/\ FallingTick =>
          \A i \in 1..Len(drops) :
            Overflows(i) => /\ NumGe(drops'[i], OfInt(0 - rowCount))
                            /\ NumLt(drops'[i], OfInt(0))
     /\ Ticked => WithinRows(drops', Rows(variant', closure'.dimensions, video'))]_vars

\* C14, amended: a position that exceeds the row count after its increment
\* is replaced by a value p with -rows <= p <= 0 (the top row included), and
\* no column holds a position greater than rows at the end of a tick.
C14_WrapAtOrAboveTop ==
  [][/\ FallingTick =>
          \A i \in 1..Len(drops) :
            Overflows(i) => /\ NumGe(drops'[i], OfInt(0 - rowCount))
                            /\ NumGe(OfInt(0), drops'[i])
     /\ Ticked => WithinRows(drops', Rows(variant', closure'.dimensions, video'))]_vars

C14_Witness ==
  /\ Len(drops) = 2
  /\ rowCount = 2
  /\ NumLt(drops[1], OfInt(0))
  /\ drops[2] = OfInt(0)
  /\ frameCounter = 6

\* ------------------------------------------------------------------------
\* The glitch window of variant B across one render tick: a glitch that
\* begins is marked with the frame of its first raw-feed tick; after one
\* raw-feed tick the next tick draws the raw feed too; after two the next
\* tick draws the grid and clears the marker; a running window is never
\* replaced by a new one; and a tick draws the raw feed exactly when it is
\* the first or the second tick of the window.
GlitchWindowStep ==
  /\ (glitchStartFrame = 0 /\ glitchStartFrame' > 0)
       => glitchStartFrame' = frameCounter'
  /\ (glitchStartFrame > 0 /\ frameCounter = glitchStartFrame)
       => (painted' = RawFeed /\ glitchStartFrame' = glitchStartFrame)
  /\ (glitchStartFrame > 0 /\ frameCounter = glitchStartFrame + 1)
       => (painted'.kind = "grid" /\ glitchStartFrame' = 0)
  /\ glitchStartFrame > 0 => glitchStartFrame' \in {0, glitchStartFrame}
  /\ (painted' = RawFeed)
       <=> (/\ glitchStartFrame' > 0
            /\ frameCounter' \in {glitchStartFrame', glitchStartFrame' + 1})

\* C15: in variant B, once a glitch begins exactly 2 consecutive
\* render ticks draw the raw feed, the tick after them draws the grid and
\* resets the marker, and a glitch begins only while none is in progress.
C15_GlitchLastsTwoTicks ==
  [][(variant = "B" /\ Ticked) => GlitchWindowStep]_vars

\* ------------------------------------------------------------------------
\* C16: a segmentPerson call that never settles blocks nothing.  While calls
\* are pending, (a) every render tick that runs requests the next one, and a
\* requested frame stays requested across every step that is neither a
\* teardown nor a re-run of the effect: no poll tick and no settling call
\* cancels it; (b) a poll tick that is due can issue a new call; (c) a call
\* issued later that settles with a segmentation, while an earlier call of
\* the same activation stays pending, replaces the mask.
C16_HungInferenceBlocksNothing ==
  /\ [](inflight # {} =>
          ((segmentationInterval /\ pollCount < MaxPolls)
             => ENABLED (PollTick /\ pollCount' = pollCount + 1)))
  /\ [][/\ (Ticked /\ inflight # {}) => animationFrame'
        /\ (/\ inflight # {}
            /\ animationFrame
            /\ mounted'
            /\ activation' = activation) => animationFrame'
        /\ (/\ Settled
            /\ IsOkOfCurrent(LastOf(completed'))
            /\ \E hung \in inflight' : hung.id < LastOf(completed').id)
             => segmentationData' = Some(LastOf(completed').res.seg.data)]_vars

C16_Witness ==
  /\ mounted
  /\ frameCounter = MaxFrames
  /\ animationFrame
  /\ Len(completed) = 1
  /\ IsOkOfCurrent(completed[1])
  /\ completed[1].id = 2
  /\ inflight = {[id |-> 1, act |-> activation]}
  /\ segmentationData = Some(completed[1].res.seg.data)

\* ------------------------------------------------------------------------
\* The cell (i, j) of the grid and the data under it: the cell's corner lies
\* CellX, CellY inside the drawable rectangle, and its coordinate in a raster
\* of `len` pixels along a side of the rectangle of length `side` is the
\* whole part of corner * (len / side), in the numbers of the program.
ScaledTo(corner, len, side) == Floor(NumMul(corner, NumDiv(OfInt(len), side)))
CornerX(c) == CellX(variant, dimensions, video, c[1])
CornerY(c) == CellY(variant, dimensions, video, c[2])
MaskSays(c) ==
  /\ segmentationData # NULL
  /\ video[1] > 0
  /\ LET area == Drawable(variant, dimensions, video)
         segX == ScaledTo(CornerX(c), video[1], area[1])
         segY == ScaledTo(CornerY(c), video[2], area[2])
         k    == segY * video[1] + segX + 1
     IN  k \in DOMAIN Val(segmentationData) /\ Val(segmentationData)[k] = 1
SceneSays(c) ==
  /\ variant = "A"
  /\ sceneImageData # NULL
  /\ LET area == Drawable(variant, dimensions, video)
         img  == Val(sceneImageData)
         imgX == ScaledTo(CornerX(c), img.width, area[1])
         imgY == ScaledTo(CornerY(c), img.height, area[2])
         k    == imgY * img.width + imgX + 1
     IN  k \in DOMAIN img.alpha /\ img.alpha[k] > 128
\* the colour that marks an object cell
ObjectColor == IF variant = "A" THEN Green ELSE White
\* a render tick of the running activation drew the grid
PaintedCells == TickOfActivation /\ painted'.kind = "grid"

\* C17: a cell is drawn as an object exactly when the mask entry at its
\* scaled coordinate is 1 or (variant A) the scene alpha at its scaled
\* coordinate exceeds 128, whatever the drops and the frame are; with the
\* mask whose pixels (0..49, 0..49) are the foreground, the cell that maps
\* to (10, 10) is an object and the cell that maps to (80, 80) is not.
C17_CellClassification ==
  [][PaintedCells =>
       /\ \A c \in DOMAIN painted'.cells :
            (painted'.cells[c].color = ObjectColor) <=> (MaskSays(c) \/ SceneSays(c))
       /\ (video = <<100, 100>> /\ segmentationData = Some(SquareMask))
            => LET area == Drawable(variant, dimensions, video)
               IN  /\ ScaledTo(CornerX(<<1, 1>>), 100, area[1]) = 10
                   /\ ScaledTo(CornerY(<<1, 1>>), 100, area[2]) = 10
                   /\ ScaledTo(CornerX(<<8, 8>>), 100, area[1]) = 80
                   /\ ScaledTo(CornerY(<<8, 8>>), 100, area[2]) = 80
                   /\ painted'.cells[<<1, 1>>].color = ObjectColor
                   /\ painted'.cells[<<8, 8>>].color # ObjectColor]_vars

C17_Witness ==
  /\ video = <<100, 100>>
  /\ segmentationData = Some(SquareMask)
  /\ frameCounter = 12
  /\ painted.kind = "grid"
  /\ painted.cells[<<1, 1>>].color = ObjectColor
  /\ painted.cells[<<8, 8>>].color # ObjectColor

\* ------------------------------------------------------------------------
\* the fill style of the table, and the band of a column whose drop is at
\* row `drop`
Style(color, opacity) == [color |-> color, opacity |-> opacity]
InBand(row, drop) ==
  LET below == NumSub(OfInt(row), drop)
  IN  NumGe(below, OfInt(0)) /\ NumLt(below, OfInt(10))

\* C18: every cell is drawn with the style of the decision table, a cell
\* being highlighted iff drop <= row < drop + 10 for the drop of its column
\* at the start of the tick: variant A green for an object and white
\* otherwise, at opacity 0.5 if highlighted, else 1 for an object and 0.2
\* otherwise; variant B white for an object and green otherwise, at opacity
\* 1.0 if highlighted, else 0.4 for an object and 0.2 otherwise.
C18_StyleTable ==
  [][PaintedCells =>
       \A c \in DOMAIN painted'.cells :
         LET object      == MaskSays(c) \/ SceneSays(c)
             highlighted == InBand(c[2], drops[c[1] + 1])
             drawn       == painted'.cells[c]
         IN  IF variant = "A"
             THEN /\ (object /\ ~highlighted) => drawn = Style(Green, OfInt(1))
                  /\ (object /\ highlighted) => drawn = Style(Green, Num(1, 2))
                  /\ (~object /\ ~highlighted) => drawn = Style(White, Num(1, 5))
                  /\ (~object /\ highlighted) => drawn = Style(White, Num(1, 2))
             ELSE /\ drawn.color = IF object THEN White ELSE Green
                  /\ drawn.opacity = IF highlighted THEN OfInt(1)
                                     ELSE IF object THEN Num(2, 5) ELSE Num(1, 5)]_vars

C18_Witness ==
  /\ variant = "A"
  /\ frameCounter = 12
  /\ painted.kind = "grid"
  /\ {painted.cells[c] : c \in DOMAIN painted.cells}
       = {Style(Green, OfInt(1)), Style(Green, Num(1, 2)),
          Style(White, Num(1, 5)), Style(White, Num(1, 2))}

\* C19: on every render tick whose frame-counter value is even, every column
\* is advanced by exactly one row, or wrapped if the advanced position
\* exceeds the row count; in variant B also on the even ticks of a glitch
\* window.
C19_ColumnsAdvanceOnEveryEvenTick ==
  [][(TickOfActivation /\ frameCounter' % 2 = 0) =>
       /\ Len(drops') = Len(drops)
       /\ \A i \in 1..Len(drops) :
            IF Overflows(i)
            THEN /\ NumGe(drops'[i], OfInt(0 - rowCount))
                 /\ NumGe(OfInt(0), drops'[i])
            ELSE drops'[i] = NumAdd(drops[i], OfInt(1))]_vars

\* C20: the mask never goes back to an older inference: when a segmentPerson
\* call settles with a segmentation that is stored in the mask slot, no call
\* issued after it has had its result stored there before.
C20_MaskFreshnessMonotone ==
  [][(/\ Settled
      /\ IsOk(LastOf(completed'))
      /\ LastOf(completed').act = activation)
     => \A k \in 1..Len(completed) :
          (IsOk(completed[k]) /\ completed[k].act = activation)
            => completed[k].id < LastOf(completed').id]_vars

\* C21: variant A, the bounding box and the mask of the running activation
\* come from the same inference: whenever boundingBoxRef.current is not
\* null, the mask is not null and is the data of the inference the box was
\* scanned from (the last one that settled with a segmentation).
C21_BoxAndMaskOfSameInference ==
  (variant = "A" /\ boundingBoxRef # NULL) =>
    LET good == SelectSeq(completed, IsOk)
    IN  /\ Len(good) > 0
        /\ boundingBoxRef = BoundingBox(LastOf(good).res.seg)
        /\ segmentationData # NULL
        /\ segmentationData = Some(LastOf(good).res.seg.data)

\* C22: the mask the render ticks read changes only when a segmentPerson
\* call settles with a segmentation, and once a mask is stored it is never
\* null again: no resize and no re-run of the render-loop effect discards it.
C22_MaskOnlyChangedByPoll ==
  [][/\ segmentationData' # segmentationData
          => (Settled /\ IsOk(LastOf(completed')))
     /\ segmentationData # NULL => segmentationData' # NULL]_vars

\* C23: at most one render loop and one poller are live: in every state at
\* most one animation-frame request is pending, at most one interval is
\* armed and at most one resize listener is registered, and after every run
\* of the render-loop effect body the only live handles are the ones that
\* run created (the previous activation's were released first).
C23_AtMostOneLoopAndPoller ==
  /\ [](/\ resizeListeners <= 1
        /\ armedIntervals <= 1
        /\ pendingFrames <= 1)
  /\ [][activation' # activation
          => /\ resizeListeners' = 1
             /\ armedIntervals' = 1
             /\ pendingFrames' = (IF animationFrame' THEN 1 ELSE 0)]_vars

C23_Witness ==
  /\ activation = 2 /\ loopActive
  /\ dimensions = viewport
  /\ frameCounter >= 3
  /\ resizeListeners = 1 /\ armedIntervals = 1 /\ pendingFrames = 1

\* the loop has settled on the viewport: the stored dimensions are the
\* viewport size, no setDimensions is waiting to be rendered, no re-run of
\* the effect is pending, and the activation is running with its frame
\* requested
Stabilised ==
  /\ dimensions = viewport
  /\ pendingDimensions = NULL
  /\ passiveEffects = "flushed"
  /\ loopActive /\ animationFrame

\* C24: the render-loop effect stabilises.  The effect is re-run only when a
\* rendered width or height differs from the previous one, so the
\* setDimensions of its own body does not trigger it again; whatever the
\* resizes, after finitely many re-runs the stored dimensions equal the
\* viewport size with no update pending; and from then on, as long as the
\* viewport keeps its size, the same loop activation keeps running.
C24_EffectStabilises ==
  /\ [][activation' # activation
          => closure'.dimensions # closure.dimensions]_vars
  /\ [][(Stabilised /\ viewport' = viewport)
          => (Stabilised' /\ activation' = activation)]_vars
  /\ (~Stabilised) ~> Stabilised

C24_Witness ==
  /\ activation = 2 /\ loopActive /\ animationFrame
  /\ dimensions = viewport
  /\ pendingDimensions = NULL
  /\ passiveEffects = "flushed"
  /\ frameCounter >= 4

====
